---- MODULE Spec2Model ----
(***************************************************************************)
(* spellbinder: PDF -> EPUB/HTML conversion pipeline (src/index.js).       *)
(*                                                                         *)
(* src/index.js holds two revisions of the program:                        *)
(*   revision 1 (lines 1-242):   EPUB output, or HTML with --html          *)
(*   revision 2 (lines 243-441): HTML output only                          *)
(* Both are modelled; the variable revision says which one is running.     *)
(*                                                                         *)
(* Node runs one callback at a time and drains the microtask queue before  *)
(* the next I/O completion is delivered, so one action is one I/O          *)
(* completion (upload, generateContent, EPub render) together with every   *)
(* continuation it triggers.                                               *)
(***************************************************************************)
EXTENDS Integers, Sequences, FiniteSets, TLC

\* ---------------------------------------------------------------- bounds
\* largest chapter count the analysis may report in Spec and FairSpec
MaxUnits == 2
\* largest chapter count the analysis may report in SpecPool
PoolUnits == 6
\* largest chapter count the analysis may report in SpecDet
DetUnits == 2
\* most pieces a sample response text is put together from in SpecText
MaxPieces == 3

\* ------------------------------------------------------ program constants
concurrency == 5
MaxAttempt == 3

Min(a, b) == IF a < b THEN a ELSE b
Max(a, b) == IF a < b THEN b ELSE a

\* ------------------------------------------------------------------ text
\* A JavaScript string is a sequence of one-character strings.
\* (BQ stands for the backtick character, which a TLA+ string cannot hold.)
BQ == "BACKTICK"
FenceOpen == <<BQ, BQ, BQ, "h", "t", "m", "l", "\n">>
FenceClose == <<"\n", BQ, BQ, BQ>>
Hi == <<"<", "p", ">", "h", "i", "<", "/", "p", ">">>
Yo == <<"<", "p", ">", "y", "o", "<", "/", "p", ">">>
FencedHi == FenceOpen \o Hi \o FenceClose
Undefined == <<"undefined">>

\* index of the first occurrence of pat in s, 0 when there is none
IndexOf(s, pat) ==
  LET hits == {i \in 1..(Len(s) - Len(pat) + 1) :
                 SubSeq(s, i, i + Len(pat) - 1) = pat}
  IN IF hits = {} THEN 0 ELSE CHOOSE i \in hits : \A j \in hits : i <= j

\* String.prototype.replace with a non-global pattern of literal characters:
\* the first occurrence, wherever it is, is replaced
replace(s, pat, rep) ==
  LET i == IndexOf(s, pat)
  IN IF i = 0 THEN s
     ELSE SubSeq(s, 1, i - 1) \o rep \o SubSeq(s, i + Len(pat), Len(s))

StripKeepClose(text) == replace(text, FenceOpen, <<>>)

\* res.text.replace(/```html\n/, '').replace(/\n```/, '')
Strip(text) == replace(replace(text, FenceOpen, <<>>), FenceClose, <<>>)

\* --------------------------------------------------------------- replies
\* outcome of one ai.models.generateContent call: it rejects (err), or it
\* resolves with res.text = text (<<>> is an empty or absent text)
Error == [err |-> TRUE, text |-> <<>>]
EmptyReply == [err |-> FALSE, text |-> <<>>]
Text(t) == [err |-> FALSE, text |-> t]
NoReply == [err |-> TRUE, text |-> <<"none">>]

Failed_errorsOnly(r) == r.err

\* the try block throws: the call rejected, or `if (!res.text) throw`
Failed(r) == r.err \/ r.text = <<>>

\* outcome of the analysis call: body is "" (no text), "notjson" (text that
\* JSON.parse rejects) or "json"; a JSON object may lack "chapters"
MetaError == [err |-> TRUE, body |-> "", hasChapters |-> FALSE, n |-> 0]
MetaEmpty == [err |-> FALSE, body |-> "", hasChapters |-> FALSE, n |-> 0]
MetaGarbage == [err |-> FALSE, body |-> "notjson", hasChapters |-> FALSE, n |-> 0]
MetaNoChapters == [err |-> FALSE, body |-> "json", hasChapters |-> FALSE, n |-> 0]
MetaChapters(k) == [err |-> FALSE, body |-> "json", hasChapters |-> TRUE, n |-> k]
NoMeta == [err |-> TRUE, body |-> "none", hasChapters |-> FALSE, n |-> 0]

MetaFailed(r) == r.err \/ r.body = ""

Title(i) == <<"title", i>>
NoTitle == <<>>
\* meta.chapters of a parsed reply
ChaptersOf(r) == [i \in 1..r.n |-> Title(i)]

\* JSON.parse(res) does not throw
Parsed(r) == r.body = "json"

\* -------------------------------------------------------------- spinners
chapterId(n) == <<"chapter", n>>
UploadId == <<"upload", 0>>
ProcessingId == <<"processing", 0>>
UndefinedId == <<"undefined", 0>>

\* the spinnerId main passes to callModel for the analysis
AnalysisSpinnerId(rev) == IF rev = 1 THEN ProcessingId ELSE UndefinedId

VARIABLES
  revision,    \* 1: src/index.js 1-242, 2: src/index.js 243-441
  html,        \* argv.html (revision 2 always writes HTML)
  service,     \* how the transformation service answers (see MetaAllowed)
  pc,          \* where the top level is suspended
  exit,        \* "running", "exit0", "exit1"
  analysis,    \* callModel of main: [st, attempt]
  lastMeta,    \* last reply delivered to the analysis call
  chapters,    \* meta.chapters once parsed and validated
  worker,      \* genChapter(c, u, ..): "queued", "running", "done"
  queue,       \* p-limit queue of chapter numbers not yet started
  activeCount, \* p-limit activeCount
  call,        \* callModel of chapter u: [st, attempt]
  last,        \* last reply delivered to chapter u's callModel
  results,     \* value each genChapter promise resolved with
  spin,        \* spinner registry: id -> [status, retries, log]
  dom,         \* the <div id="chapter-i"> slots of $
  file,        \* argv.output as last written by writeFileSync
  epub,        \* the options given to new EPub(...), and whether it rendered
  overtook,    \* history: some chapter finished before a lower-numbered one
  tally        \* history: writeFileSync calls, and per chapter number how
               \* often its body was started and its result index written

vars == <<revision, html, service, pc, exit, analysis, lastMeta,
          chapters, worker, queue, activeCount, call, last, results, spin,
          dom, file, epub, overtook, tally>>

\* ------------------------------------------------------------- callModel
CatchOutcome_offByOne(registry, spinnerId, attempt) ==
  IF spinnerId \notin DOMAIN registry THEN "throw"
  ELSE IF attempt <= MaxAttempt THEN "retry" ELSE "fatal"

CatchOutcome_noExit(registry, spinnerId, attempt) ==
  IF spinnerId \notin DOMAIN registry THEN "throw"
  ELSE IF attempt < MaxAttempt THEN "retry" ELSE "undefined"

\* The catch block of callModel, entered with a failed attempt:
\*   "retry"  attempt < 3: spinner updated, callModel called again
\*   "fatal"  spin.fail, console.error, process.exit(1)
\*   "throw"  spin.pick(id) is undefined for an id that was never added, so
\*            `const {text} = ...` throws a TypeError out of the catch block
\*            (spin.fail throws likewise for such an id)
\* ("undefined" is callModel falling off its end; the code as written never
\* does.)
CatchOutcome(registry, spinnerId, attempt) ==
  IF spinnerId \notin DOMAIN registry THEN "throw"
  ELSE IF attempt < MaxAttempt THEN "retry" ELSE "fatal"

Unwind_noReturn(attempt, value) == IF attempt = 0 THEN value ELSE Undefined

\* `return callModel(..., attempt + 1)`: the value of the innermost call is
\* the value of every enclosing call
Unwind(attempt, value) == value

\* the whole of one attempt's continuation: what callModel does with reply r
Outcome(registry, spinnerId, attempt, failed) ==
  IF failed THEN CatchOutcome(registry, spinnerId, attempt) ELSE "return"

\* spin.add / spin.update / spin.succeed / spin.fail
\* (log is the history of what the terminal was shown for the id)
Event(phase, n) == [phase |-> phase, attempt |-> n]
spinAdd(registry, id) ==
  (id :> [status |-> "spinning", retries |-> <<>>,
          log |-> <<Event("started", 0)>>]) @@ registry
spinRetry_zeroBased(registry, id, attempt) ==
  [registry EXCEPT ![id].retries = Append(@, attempt),
                   ![id].log = Append(@, Event("retrying", attempt))]
spinRetry(registry, id, attempt) ==
  [registry EXCEPT ![id].retries = Append(@, attempt + 1),
                   ![id].log = Append(@, Event("retrying", attempt + 1))]
spinSucceed(registry, id) ==
  [registry EXCEPT ![id].status = "succeed",
                   ![id].log = Append(@, Event("succeeded", 0))]
\* spin.succeed(spinnerId, {text: spinnerTitle}) also resets the text
spinSucceedText(registry, id) ==
  [registry EXCEPT ![id] = [status |-> "succeed", retries |-> <<>>,
                            log |-> Append(@.log, Event("succeeded", 0))]]
spinFail(registry, id) ==
  [registry EXCEPT ![id].status = "fail",
                   ![id].log = Append(@, Event("failed", 0))]

\* ---------------------------------------------------------------- p-limit
Admit_none(queued, active) == 0

Admit_unbounded(queued, active) == queued

Admit_oneMore(queued, active) == Min(queued, Max(0, concurrency + 1 - active))

\* how many queued functions p-limit starts: one per free slot
Admit(queued, active) == Min(queued, Max(0, concurrency - active))

Dequeue_keep(q, k) == q

\* the queue after p-limit has taken its first k entries to run them
Dequeue(q, k) == SubSeq(q, k + 1, Len(q))

\* -------------------------------------------------------------- assembly
NoResult == [settled |-> FALSE, title |-> NoTitle, data |-> <<>>]
NoEpub == [built |-> FALSE, content |-> <<>>, rendered |-> FALSE]
NoFile == <<[id |-> <<"nofile", 0>>, filled |-> FALSE, title |-> NoTitle, body |-> <<>>]>>

PromiseAllIndex_push(chapterN, settled) == settled + 1

\* Promise.all(meta.chapters.map((c, i) => genChapter(c, i + 1, ...))): the
\* value of the promise of chapter i + 1 lands at array index i
PromiseAllIndex(chapterN, settled) == chapterN

\* `<div id="chapter-i">c</div>` for every chapter, in order
Placeholders(titles) ==
  [i \in DOMAIN titles |->
     [id |-> chapterId(i), filled |-> FALSE, title |-> titles[i], body |-> <<>>]]

FillSlot_append(slots, rev, chapterN, title, data) ==
  Append(slots, [id |-> chapterId(chapterN), filled |-> TRUE,
                 title |-> IF rev = 1 THEN title ELSE NoTitle, body |-> data])

FillSlot_zeroBased(slots, rev, chapterN, title, data) ==
  [i \in DOMAIN slots |->
     IF slots[i].id = chapterId(chapterN - 1)
     THEN [id |-> slots[i].id, filled |-> TRUE,
           title |-> IF rev = 1 THEN title ELSE NoTitle, body |-> data]
     ELSE slots[i]]

\* $(`#chapter-N`).html(...): revision 1 writes <h2>title</h2>\n data,
\* revision 2 writes the response alone
FillSlot(slots, rev, chapterN, title, data) ==
  [i \in DOMAIN slots |->
     IF slots[i].id = chapterId(chapterN)
     THEN [id |-> slots[i].id, filled |-> TRUE,
           title |-> IF rev = 1 THEN title ELSE NoTitle, body |-> data]
     ELSE slots[i]]

Persist_beforeFill(before, after) == before

\* writeFileSync(argv.output, $.html()), called after the slot was filled:
\* the file holds the document as it is after the fill
Persist(before, after) == after

\* what genChapter returns: {title, data} in revision 1, nothing in revision 2
UnitResult(rev, title, data) ==
  IF rev = 1 THEN [settled |-> TRUE, title |-> title, data |-> data]
  ELSE [settled |-> TRUE, title |-> NoTitle, data |-> Undefined]

HasChapters_noLength(r) == r.hasChapters

\* `!meta.chapters?.length` is false
HasChapters(r) == r.hasChapters /\ r.n > 0

Running == exit = "running"
N == Len(worker)
Units == 1..N
Active == {u \in Units : worker[u] = "running"}

\* ------------------------------------------------------------------ Init
Modes == {<<1, FALSE>>, <<1, TRUE>>, <<2, TRUE>>}

MetaReplies(maxN) ==
  {MetaError, MetaEmpty, MetaGarbage, MetaNoChapters}
    \cup {MetaChapters(k) : k \in 0..maxN}
UnitReplies == {Error, EmptyReply, Text(Hi), Text(FencedHi), Text(Yo)}

\* response texts put together from fence markers and ordinary text, in
\* every order: up to MaxPieces pieces
Plain == <<"a">>
Pieces == {FenceOpen, FenceClose, Plain}
RECURSIVE Concats(_)
Concats(k) ==
  IF k = 0 THEN {<<>>} ELSE {p \o t : p \in Pieces, t \in Concats(k - 1)}
SampleTexts == UNION {Concats(k) : k \in 1..MaxPieces}

\* The transformation service is the environment. service.kind says what it
\* may answer to attempt a of a request:
\*   "any"   anything, to every attempt
\*   "fair"  any analysis reply; a chapter call fails or gets the fenced text
\*   "pool"  the analysis succeeds at once; a chapter call gets Hi, after at
\*           most one failed attempt
\*   "text"  the analysis reports one chapter; its call gets any of the
\*           sample texts
\*   "det"   one fixed reply per request: the analysis fails metaFails times
\*           and then reports metaN chapters, chapter u fails unit[u].fails
\*           times and then gets the text named unit[u].text
Service(kind) == [kind |-> kind, metaFails |-> 0, metaN |-> 0, unit |-> <<>>]
Named(t) == IF t = "Hi" THEN Hi ELSE Yo

MetaAllowed(a) ==
  CASE service.kind = "any" -> MetaReplies(MaxUnits)
    [] service.kind = "fair" -> MetaReplies(MaxUnits)
    [] service.kind = "pool" -> {MetaChapters(k) : k \in 1..PoolUnits}
    [] service.kind = "text" -> {MetaChapters(1)}
    [] service.kind = "det" ->
         {IF a < service.metaFails THEN MetaError ELSE MetaChapters(service.metaN)}

UnitAllowed(u, a) ==
  CASE service.kind = "any" -> UnitReplies
    [] service.kind = "fair" -> {Error, Text(FencedHi)}
    [] service.kind = "pool" -> IF a = 0 THEN {Error, Text(Hi)} ELSE {Text(Hi)}
    [] service.kind = "text" -> {Text(t) : t \in SampleTexts}
    [] service.kind = "det" ->
         {IF a < service.unit[u].fails THEN Error ELSE Text(Named(service.unit[u].text))}

\* The program after `const inputFile = await uploadFile(argv.input)` has
\* suspended on ai.files.upload.
InitProgram ==
  /\ \E m \in Modes : revision = m[1] /\ html = m[2]
  /\ pc = "upload"
  /\ exit = "running"
  /\ analysis = [st |-> "idle", attempt |-> 0]
  /\ lastMeta = NoMeta
  /\ chapters = <<>>
  /\ worker = <<>>
  /\ queue = <<>>
  /\ activeCount = 0
  /\ call = <<>>
  /\ last = <<>>
  /\ results = <<>>
  /\ spin = spinAdd(<<>>, UploadId)
  /\ dom = <<>>
  /\ file = NoFile
  /\ epub = NoEpub
  /\ overtook = FALSE
  /\ tally = [writes |-> 0, starts |-> <<>>, stores |-> <<>>]

Init ==
  /\ InitProgram
  /\ service = Service("any")

\* ---------------------------------------------------------------- actions
Die_noExit == UNCHANGED <<exit, pc>>

\* process.exit(1), or an uncaught rejection reaching the top level
Die ==
  /\ exit' = "exit1"
  /\ pc' = "exited"

\* ai.files.upload settles; on success main() runs up to its first await
UploadDone(ok) ==
  /\ Running
  /\ pc = "upload"
  /\ IF ok
     THEN /\ spin' = spinAdd(spinSucceed(spin, UploadId), ProcessingId)
          /\ analysis' = [st |-> "calling", attempt |-> 0]
          /\ pc' = "analysis"
          /\ UNCHANGED exit
     ELSE /\ Die
          /\ UNCHANGED <<spin, analysis>>
  /\ UNCHANGED <<revision, html, service, lastMeta, chapters, worker,
                 queue, activeCount, call, last, results, dom, file, epub,
                 overtook, tally>>

\* p-limit starts the first k queued genChapter bodies: each adds its
\* spinner and suspends in callModel on generateContent
Started(q, k) == {q[i] : i \in 1..k}

\* main after Promise.all resolved
Finish(content) ==
  IF revision = 1 /\ ~html
  THEN /\ epub' = [built |-> TRUE, content |-> content, rendered |-> FALSE]
       /\ pc' = "render"
       /\ UNCHANGED exit
  ELSE /\ exit' = "exit0"
       /\ pc' = "exited"
       /\ UNCHANGED epub

\* the analysis callModel's generateContent settles with r
AnalysisReply(r) ==
  /\ Running
  /\ pc = "analysis"
  /\ analysis.st = "calling"
  /\ r \in MetaAllowed(analysis.attempt)
  /\ lastMeta' = r
  /\ LET id == AnalysisSpinnerId(revision)
         out == Outcome(spin, id, analysis.attempt, MetaFailed(r))
         k == Admit(r.n, 0)
     IN CASE out = "retry" ->
               /\ spin' = spinRetry(spin, id, analysis.attempt)
               /\ analysis' = [analysis EXCEPT !.attempt = @ + 1]
               /\ UNCHANGED <<pc, exit, chapters, worker, queue, activeCount,
                              call, last, results, dom, epub, tally>>
          [] out = "fatal" ->
               /\ spin' = spinFail(spin, id)
               /\ analysis' = [analysis EXCEPT !.st = "fatal"]
               /\ Die
               /\ UNCHANGED <<chapters, worker, queue, activeCount, call, last,
                              results, dom, epub, tally>>
          [] out = "throw" ->
               /\ analysis' = [analysis EXCEPT !.st = "threw"]
               /\ Die
               /\ UNCHANGED <<spin, chapters, worker, queue, activeCount, call,
                              last, results, dom, epub, tally>>
          [] out = "undefined" ->
               \* JSON.parse(undefined) throws: process.exit(1)
               /\ analysis' = [analysis EXCEPT !.st = "returned"]
               /\ spin' = spinSucceed(spin, ProcessingId)
               /\ Die
               /\ UNCHANGED <<chapters, worker, queue, activeCount, call, last,
                              results, dom, epub, tally>>
          [] out = "return" /\ ~(Parsed(r) /\ HasChapters(r)) ->
               /\ analysis' = [analysis EXCEPT !.st = "returned"]
               /\ spin' = spinSucceed(spin, ProcessingId)
               /\ Die
               /\ UNCHANGED <<chapters, worker, queue, activeCount, call, last,
                              results, dom, epub, tally>>
          [] out = "return" /\ Parsed(r) /\ HasChapters(r) ->
               /\ analysis' = [analysis EXCEPT !.st = "returned"]
               /\ chapters' = ChaptersOf(r)
               /\ dom' = IF html THEN Placeholders(ChaptersOf(r)) ELSE dom
               /\ queue' = Dequeue([i \in 1..r.n |-> i], k)
               /\ tally' = [writes |-> 0,
                            starts |-> [u \in 1..r.n |-> IF u <= k THEN 1 ELSE 0],
                            stores |-> [u \in 1..r.n |-> 0]]
               /\ activeCount' = k
               /\ worker' = [u \in 1..r.n |-> IF u <= k THEN "running" ELSE "queued"]
               /\ call' = [u \in 1..r.n |->
                             [st |-> IF u <= k THEN "calling" ELSE "idle",
                              attempt |-> 0]]
               /\ last' = [u \in 1..r.n |-> NoReply]
               /\ results' = [u \in 1..r.n |-> NoResult]
               /\ LET RECURSIVE AddAll(_, _)
                      AddAll(reg, u) ==
                        IF u > k THEN reg ELSE AddAll(spinAdd(reg, chapterId(u)), u + 1)
                  IN spin' = AddAll(spinSucceed(spin, ProcessingId), 1)
               /\ IF r.n = 0
                  THEN Finish(<<>>)
                  ELSE pc' = "units" /\ UNCHANGED <<exit, epub>>
  /\ UNCHANGED <<revision, html, service, file, overtook>>

\* chapter u's callModel returned data: the rest of the genChapter body,
\* p-limit's release of the slot and start of the next queued chapter, and
\* main's continuation when this was the last promise of Promise.all
Complete(u, data) ==
  LET title == chapters[u]
      slots == IF html THEN FillSlot(dom, revision, u, title, data) ELSE dom
      settled == Cardinality({v \in Units : results[v].settled})
      res == [results EXCEPT ![PromiseAllIndex(u, settled)] =
                UnitResult(revision, title, data)]
      k == Admit(Len(queue), activeCount - 1)
      next == Started(queue, k)
      w == [v \in Units |-> IF v = u THEN "done"
                            ELSE IF v \in next THEN "running" ELSE worker[v]]
      reg == IF revision = 1 THEN spinSucceedText(spin, chapterId(u))
             ELSE spinSucceed(spin, chapterId(u))
      RECURSIVE AddAll(_, _)
      AddAll(registry, i) ==
        IF i > k THEN registry
        ELSE AddAll(spinAdd(registry, chapterId(queue[i])), i + 1)
  IN /\ dom' = slots
     /\ overtook' = (overtook \/ \E v \in 1..(u - 1) : worker[v] # "done")
     /\ file' = IF html THEN Persist(dom, slots) ELSE file
     /\ tally' = [writes |-> IF html THEN tally.writes + 1 ELSE tally.writes,
                  starts |-> [v \in Units |->
                                IF v \in next THEN tally.starts[v] + 1
                                ELSE tally.starts[v]],
                  stores |-> [tally.stores EXCEPT ![PromiseAllIndex(u, settled)] = @ + 1]]
     /\ results' = res
     /\ worker' = w
     /\ queue' = Dequeue(queue, k)
     /\ activeCount' = activeCount - 1 + k
     /\ call' = [v \in Units |->
                   IF v = u THEN [call[v] EXCEPT !.st = "returned"]
                   ELSE IF v \in next THEN [st |-> "calling", attempt |-> 0]
                   ELSE call[v]]
     /\ spin' = AddAll(reg, 1)
     /\ IF \A v \in Units : w[v] = "done"
        THEN Finish(res)
        ELSE UNCHANGED <<pc, exit, epub>>

\* chapter u's generateContent settles with r
UnitReply(u, r) ==
  /\ Running
  /\ pc = "units"
  /\ u \in Units
  /\ worker[u] = "running"
  /\ call[u].st = "calling"
  /\ r \in UnitAllowed(u, call[u].attempt)
  /\ last' = [last EXCEPT ![u] = r]
  /\ LET id == chapterId(u)
         a == call[u].attempt
         out == Outcome(spin, id, a, Failed(r))
     IN CASE out = "retry" ->
               /\ spin' = spinRetry(spin, id, a)
               /\ call' = [call EXCEPT ![u].attempt = a + 1]
               /\ UNCHANGED <<pc, exit, worker, queue, activeCount, results,
                              dom, file, epub, overtook, tally>>
          [] out = "fatal" ->
               /\ spin' = spinFail(spin, id)
               /\ call' = [call EXCEPT ![u].st = "fatal"]
               /\ Die
               /\ UNCHANGED <<worker, queue, activeCount, results, dom, file,
                              epub, overtook, tally>>
          [] out = "throw" ->
               /\ call' = [call EXCEPT ![u].st = "threw"]
               /\ Die
               /\ UNCHANGED <<spin, worker, queue, activeCount, results, dom,
                              file, epub, overtook, tally>>
          [] out = "undefined" -> Complete(u, Undefined)
          [] out = "return" -> Complete(u, Unwind(a, Strip(r.text)))
  /\ UNCHANGED <<revision, html, service, analysis, lastMeta, chapters>>

\* new EPub({..., content}, argv.output).render() settles
RenderDone(ok) ==
  /\ Running
  /\ pc = "render"
  /\ IF ok
     THEN /\ epub' = [epub EXCEPT !.rendered = TRUE]
          /\ exit' = "exit0"
          /\ pc' = "exited"
     ELSE /\ Die
          /\ UNCHANGED epub
  /\ UNCHANGED <<revision, html, service, analysis, lastMeta, chapters,
                 worker, queue, activeCount, call, last, results, spin, dom,
                 file, overtook, tally>>

Next ==
  \/ \E ok \in BOOLEAN : UploadDone(ok)
  \/ \E r \in MetaAllowed(analysis.attempt) : AnalysisReply(r)
  \/ \E u \in Units : \E r \in UnitAllowed(u, call[u].attempt) : UnitReply(u, r)
  \/ \E ok \in BOOLEAN : RenderDone(ok)

Spec == Init /\ [][Next]_vars

InitFair ==
  /\ InitProgram
  /\ service = Service("fair")

\* Every I/O the program waits for eventually completes (the upload, each
\* generateContent call, the EPUB rendering), so some step is always taken
\* while one is outstanding.
FairSpec == InitFair /\ [][Next]_vars /\ WF_vars(Next)

\* more chapters than pool slots
InitPool ==
  /\ InitProgram
  /\ service = Service("pool")

SpecPool == InitPool /\ [][Next]_vars

\* A deterministic service. A request is never repeated once answered, so
\* a chapter's replies are fixed by the number of failures before its first
\* text and by that text.
OracleRows ==
  {[fails |-> f, text |-> t] : f \in 0..1, t \in {"Hi", "Yo"}}
    \cup {[fails |-> MaxAttempt + 1, text |-> "Hi"]}

InitDet ==
  /\ InitProgram
  /\ service \in {[kind |-> "det", metaFails |-> f, metaN |-> k, unit |-> rows] :
                    f \in 0..1, k \in 1..DetUnits, rows \in [1..DetUnits -> OracleRows]}

SpecDet == InitDet /\ [][Next]_vars

\* callModel's post-processing over the sample texts: one chapter whose
\* generateContent call resolves with any of them
InitText ==
  /\ InitProgram
  /\ service = Service("text")

SpecText == InitText /\ [][Next]_vars

\* ================================================================ claims

\* C1: at every moment the number of genChapter bodies that have started
\* and not finished is at most min(N, concurrency), over all chapters.
C1_BoundedWorkers == Cardinality(Active) <= Min(N, concurrency)

\* more chapters than slots, and the pool full again after a chapter
\* finished and a queued chapter took its slot
C1_Witness ==
  /\ N > concurrency
  /\ Cardinality(Active) = concurrency
  /\ \E u \in Units : worker[u] = "done"
  /\ \E u \in Units : u > concurrency /\ worker[u] = "running"

\* C2: the composite finally emitted lists the chapters in the order of
\* meta.chapters, position i holding chapter i's own title and body: the
\* content array given to EPub, and the slots of the HTML last written.
C2_OrderPreserved ==
  /\ epub.built =>
       /\ Len(epub.content) = Len(chapters)
       /\ \A i \in Units :
            epub.content[i] =
              [settled |-> TRUE, title |-> chapters[i], data |-> Strip(last[i].text)]
  /\ (html /\ exit = "exit0") =>
       /\ Len(file) = Len(chapters)
       /\ \A i \in Units :
            /\ file[i].id = chapterId(i)
            /\ file[i].filled
            /\ file[i].body = Strip(last[i].text)
            /\ revision = 1 => file[i].title = chapters[i]

\* a finished run of at least two chapters in which a chapter overtook a
\* lower-numbered one
C2_Witness ==
  /\ overtook
  /\ N >= 2
  /\ epub.built \/ (html /\ exit = "exit0")

\* C3: a chapter call whose first and second attempts failed and whose third
\* attempt gets a text ends returned with that text (fences stripped), the
\* worker finishes with that result, and the step does not abort the run.
C3_ThirdAttemptSucceeds ==
  [][\A u \in Units :
       (/\ call[u].st = "calling"
        /\ call[u].attempt = 2
        /\ call'[u] # call[u]
        /\ ~Failed(last'[u]))
       => /\ call'[u].st = "returned"
          /\ worker'[u] = "done"
          /\ exit' # "exit1"
          /\ revision = 1 =>
               results'[u] = [settled |-> TRUE, title |-> chapters[u],
                              data |-> Strip(last'[u].text)]
          /\ html => (file'[u].filled /\ file'[u].body = Strip(last'[u].text))]_vars

C3_Witness ==
  \E u \in Units :
    /\ call[u].st = "returned"
    /\ call[u].attempt = 2
    /\ exit # "exit1"

\* C4 as stated: no call makes more than 3 attempts (attempt is 0-based).
C4_AtMostThreeAttempts ==
  /\ analysis.st # "idle" => analysis.attempt + 1 <= 3
  /\ \A u \in Units : call[u].st # "idle" => call[u].attempt + 1 <= 3

\* C4 amended: a call makes at most 4 attempts (the first and 3 retries); it
\* is fatal only when the fourth attempt failed, and then the spinner has
\* failed, the process has exited with 1 and the chapter has no result.
C4_AtMostFourAttempts ==
  /\ analysis.st # "idle" => analysis.attempt + 1 <= 4
  /\ analysis.st = "fatal" =>
       /\ analysis.attempt + 1 = 4
       /\ MetaFailed(lastMeta)
       /\ exit = "exit1"
  /\ \A u \in Units :
       /\ call[u].st # "idle" => call[u].attempt + 1 <= 4
       /\ call[u].st = "fatal" =>
            /\ call[u].attempt + 1 = 4
            /\ Failed(last[u])
            /\ spin[chapterId(u)].status = "fail"
            /\ exit = "exit1"
            /\ ~results[u].settled
            /\ html => ~dom[u].filled

C4_Witness == \E u \in Units : call[u].st = "fatal" /\ call[u].attempt = 3

\* C5: metadata with an empty or missing chapters array is rejected with
\* exit 1 before anything is scheduled: no worker, no chapter call, no
\* chapter spinner, nothing written.
C5_EmptyRejected ==
  (/\ analysis.st = "returned"
   /\ Parsed(lastMeta)
   /\ (~lastMeta.hasChapters \/ lastMeta.n = 0))
  => /\ exit = "exit1"
     /\ worker = <<>>
     /\ call = <<>>
     /\ activeCount = 0
     /\ DOMAIN spin = {UploadId, ProcessingId}
     /\ file = NoFile
     /\ epub = NoEpub

C5_Witness ==
  /\ analysis.st = "returned"
  /\ lastMeta = MetaChapters(0)
  /\ exit = "exit1"

\* C6: in EPUB mode the composite is built only when every chapter has the
\* result of a successful call; once a chapter's call is fatal the run has
\* exited with 1 and no composite is ever built.
C6_AllOrNothing ==
  /\ epub.built =>
       /\ N >= 1
       /\ Len(epub.content) = N
       /\ \A u \in Units :
            /\ call[u].st = "returned"
            /\ ~Failed(last[u])
            /\ epub.content[u].settled
  /\ \A u \in Units :
       call[u].st = "fatal" => (exit = "exit1" /\ ~epub.built)

\* two chapters, chapter 1 fatal after chapter 2 finished, EPUB mode
C6_Witness ==
  /\ ~html
  /\ N = 2
  /\ call[1].st = "fatal"
  /\ worker[2] = "done"

FullComposite ==
  /\ N >= 1
  /\ \A u \in Units : worker[u] = "done"
  /\ html => (Len(file) = N /\ \A u \in Units : file[u].filled)
  /\ ~html => (epub.rendered /\ Len(epub.content) = N
                /\ \A u \in Units : epub.content[u].settled)

\* C7: when every I/O eventually completes, the run ends, with exit 0 and
\* the composite of all N chapters or with exit 1; it never ends with exit 0
\* while a chapter has no result.
C7_Terminates ==
  /\ <>(exit # "running")
  /\ [](exit = "exit0" => FullComposite)

C7_Witness ==
  /\ exit = "exit0"
  /\ N >= 2
  /\ \E u \in Units : call[u].attempt > 0

\* C8: a reply ```html\n<p>hi</p>\n``` is used as the body <p>hi</p>.
C8_FenceStripped ==
  \A u \in Units :
    (call[u].st = "returned" /\ last[u] = Text(FencedHi))
    => /\ revision = 1 => results[u].data = Hi
       /\ html => file[u].body = Hi

C8_Witness ==
  \E u \in Units : call[u].st = "returned" /\ last[u] = Text(FencedHi)

\* the reply of a deterministic service to attempt a of chapter u
OracleReply(u, a) == CHOOSE r \in UnitAllowed(u, a) : TRUE
FirstText(u) ==
  LET ok == {a \in 0..MaxAttempt : ~Failed(OracleReply(u, a))}
  IN CHOOSE a \in ok : \A b \in ok : a <= b
ExpectedBody(u) == Strip(OracleReply(u, FirstText(u)).text)
ExpectedCount ==
  LET ok == {a \in 0..MaxAttempt : \A r \in MetaAllowed(a) : ~MetaFailed(r)}
      a0 == CHOOSE a \in ok : \A b \in ok : a <= b
  IN (CHOOSE r \in MetaAllowed(a0) : TRUE).n

\* C9: with one fixed reply per request, the final composite is a function
\* of those replies alone: the same order and bodies in every interleaving.
C9_Deterministic ==
  /\ epub.built =>
       epub.content =
         [i \in 1..ExpectedCount |->
            [settled |-> TRUE, title |-> Title(i), data |-> ExpectedBody(i)]]
  /\ (html /\ exit = "exit0") =>
       file =
         [i \in 1..ExpectedCount |->
            [id |-> chapterId(i), filled |-> TRUE,
             title |-> IF revision = 1 THEN Title(i) ELSE NoTitle,
             body |-> ExpectedBody(i)]]

C9_Witness ==
  /\ overtook
  /\ N >= 2
  /\ epub.built \/ (html /\ exit = "exit0")
  /\ \E u \in Units : call[u].attempt > 0

\* C10: no callModel, of main or of a worker, ends by throwing an attempt's
\* error at its caller.
C10_NeverSurfaces ==
  /\ analysis.st # "threw"
  /\ \A u \in Units : call[u].st # "threw"

Body(u) == IF html THEN file[u].body ELSE results[u].data

\* text with pat taken off its start (its end) when it is literally there
StripPrefix(text, pat) ==
  IF Len(text) >= Len(pat) /\ SubSeq(text, 1, Len(pat)) = pat
  THEN SubSeq(text, Len(pat) + 1, Len(text)) ELSE text
StripSuffix(text, pat) ==
  IF Len(text) >= Len(pat) /\ SubSeq(text, Len(text) - Len(pat) + 1, Len(text)) = pat
  THEN SubSeq(text, 1, Len(text) - Len(pat)) ELSE text

\* C12: the fence opening is removed from a returned text if and only if
\* the text starts with it, and the fence closing if and only if the text
\* ends with it; markers anywhere else in the text are left as they are,
\* and at most one of each is removed.
C12_FenceOnlyAtEnds ==
  \A u \in Units :
    call[u].st = "returned"
      => Body(u) = StripSuffix(StripPrefix(last[u].text, FenceOpen), FenceClose)

\* C13: the upload, the analysis and the scheduling of the chapters happen
\* one after the other: the analysis call is made only once the upload has
\* succeeded, and while it is outstanding (or was never made) no chapter
\* exists, has a spinner, or has written anything; chapters run only after
\* the analysis call returned metadata that parsed and lists at least one
\* chapter, and there are exactly as many as it lists.
C13_Sequential ==
  /\ analysis.st # "idle" => spin[UploadId].status = "succeed"
  /\ analysis.st # "returned"
       => /\ N = 0 /\ call = <<>> /\ queue = <<>> /\ activeCount = 0
          /\ \A id \in DOMAIN spin : id \in {UploadId, ProcessingId}
          /\ dom = <<>> /\ file = NoFile /\ ~epub.built
          /\ exit # "exit0"
  /\ (N > 0 \/ pc \in {"units", "render"} \/ exit = "exit0")
       => /\ analysis.st = "returned"
          /\ Parsed(lastMeta) /\ lastMeta.hasChapters
          /\ lastMeta.n = N /\ N > 0

\* chapter calls outstanding after an analysis that succeeded on a retry
C13_Witness ==
  /\ pc = "units"
  /\ analysis.attempt > 0
  /\ \E u \in Units : call[u].st = "calling"

\* C14: with HTML output, the file is written once for every chapter that
\* has finished and not otherwise (k finished chapters, k writes), in the
\* same step as the chapter's result arrives, and every file written has
\* exactly one slot per chapter 1..N, in order, each slot holding either
\* its chapter's placeholder title or its own chapter's generated body.
C14_CompositeValid ==
  (html /\ N > 0) =>
    /\ tally.writes = Cardinality({u \in Units : worker[u] = "done"})
    /\ tally.writes = Cardinality({u \in Units : results[u].settled})
    /\ tally.writes = 0 => file = NoFile
    /\ tally.writes > 0 =>
         /\ file = dom
         /\ Len(file) = N
         /\ \A i \in 1..N :
              /\ file[i].id = chapterId(i)
              /\ IF file[i].filled
                 THEN /\ call[i].st = "returned"
                      /\ file[i].body = Strip(last[i].text)
                      /\ file[i].title = IF revision = 1 THEN chapters[i] ELSE NoTitle
                 ELSE /\ file[i].title = chapters[i]
                      /\ file[i].body = <<>>

\* a file written when chapter 2 had finished and chapter 1 had not: slot 1
\* holds the placeholder, slot 2 the body
C14_Witness ==
  /\ html
  /\ N = 2
  /\ tally.writes = 1
  /\ ~file[1].filled
  /\ file[2].filled

\* C15: the step in which a chapter call becomes fatal ends the process
\* with exit code 1 and touches no result, document, file or worker, and
\* from a state in which some chapter call is fatal nothing changes any
\* more: no result arrives, no attempt is made, no queued chapter starts,
\* nothing is written, and the calls in flight stay as they were.
C15_AbortOnFatal ==
  [][/\ (\E u \in Units : call[u].st = "fatal") => UNCHANGED vars
     /\ (\E u \in Units : call[u].st # "fatal" /\ call'[u].st = "fatal")
          => /\ exit' = "exit1"
             /\ UNCHANGED <<results, dom, file, epub, worker, queue,
                            activeCount, tally>>]_vars

\* a chapter call went fatal while another chapter's request was in flight
C15_Witness ==
  /\ exit = "exit1"
  /\ \E u \in Units : call[u].st = "fatal"
  /\ \E v \in Units : worker[v] = "running" /\ call[v].st = "calling"

\* C16: what the terminal is shown for a chapter is: one "started", then
\* "retrying" events numbered 1, 2, ... each one more than the one before,
\* then at most one terminal event, "succeeded" or "failed", and nothing
\* after it. "succeeded" is shown only when the chapter's result exists
\* (with HTML output: when its body is in the file written), "failed" only
\* when its call is fatal, and a chapter not yet started has shown nothing.
C16_EventOrder ==
  \A u \in Units :
    IF chapterId(u) \notin DOMAIN spin THEN worker[u] = "queued"
    ELSE LET log == spin[chapterId(u)].log
             n == Len(log)
         IN /\ worker[u] # "queued"
            /\ n >= 1
            /\ log[1] = Event("started", 0)
            /\ \A i \in 2..n :
                 /\ log[i].phase \in {"retrying", "succeeded", "failed"}
                 /\ log[i].phase = "retrying" => log[i].attempt = i - 1
                 /\ log[i - 1].phase \in {"started", "retrying"}
            /\ log[n].phase = "succeeded"
                 => /\ results[u].settled
                    /\ html => (file # NoFile /\ file[u].filled)
            /\ log[n].phase = "failed" => call[u].st = "fatal"
            /\ call[u].st = "returned" => log[n].phase = "succeeded"
            /\ call[u].st = "fatal" => log[n].phase = "failed"

\* a chapter shown as started, retrying 1, retrying 2, succeeded, and
\* another shown as started, retrying 1, 2, 3, failed
C16_Witness ==
  /\ \E u \in Units :
       /\ chapterId(u) \in DOMAIN spin
       /\ spin[chapterId(u)].log =
            <<Event("started", 0), Event("retrying", 1), Event("retrying", 2),
              Event("succeeded", 0)>>
  /\ \E v \in Units :
       /\ chapterId(v) \in DOMAIN spin
       /\ spin[chapterId(v)].log =
         <<Event("started", 0), Event("retrying", 1), Event("retrying", 2),
           Event("retrying", 3), Event("failed", 0)>>

\* C17: every chapter number 1..N is handed to exactly one genChapter body
\* and processed at most once: a chapter waits in the queue exactly once
\* until it is started, is started at most once, and its result index (and
\* with HTML output its slot of the file) is written only by its own body,
\* once, when that body finishes.
C17_OneWorkerPerIndex ==
  /\ Len(queue) = Cardinality({u \in Units : worker[u] = "queued"})
  /\ \A i \in 1..Len(queue) : queue[i] \in Units /\ worker[queue[i]] = "queued"
  /\ \A i, j \in 1..Len(queue) : queue[i] = queue[j] => i = j
  /\ \A u \in Units :
       /\ tally.starts[u] = IF worker[u] = "queued" THEN 0 ELSE 1
       /\ tally.stores[u] = IF worker[u] = "done" THEN 1 ELSE 0
       /\ results[u].settled <=> worker[u] = "done"
       /\ (results[u].settled /\ revision = 1) => results[u].title = chapters[u]
       /\ (html /\ file # NoFile) => (file[u].filled <=> worker[u] = "done")

\* a chapter that had to wait in the queue has been started and finished,
\* while another is still running
C17_Witness ==
  /\ N > concurrency
  /\ worker[N] = "done"
  /\ tally.starts[N] = 1
  /\ tally.stores[N] = 1
  /\ \E u \in Units : worker[u] = "running"

\* generateContent requests that have not settled
InFlight ==
  Cardinality({u \in Units : call[u].st = "calling"})
    + (IF analysis.st = "calling" THEN 1 ELSE 0)

\* no more than 5 requests in flight, and only the analysis request while
\* the analysis is outstanding; a chapter with a request in flight holds
\* one of the pool's slots
SlotsHeld ==
  /\ InFlight <= concurrency
  /\ analysis.st = "calling" => InFlight = 1
  /\ activeCount = Cardinality(Active)
  /\ activeCount <= concurrency
  /\ \A u \in Units :
       /\ call[u].st = "calling" => worker[u] = "running"
       /\ worker[u] = "done" <=> call[u].st = "returned"

\* C18: a chapter keeps its pool slot from its start through all its
\* retries and gives it up only when its call has returned: a retry
\* changes neither the slots in use nor the queue, and a queued chapter is
\* started only in a step in which a running one finishes. So at most 5
\* requests are in flight once the analysis is done and at most one (the
\* analysis request) before.
C18_SlotHeldThroughRetries ==
  [][/\ SlotsHeld /\ SlotsHeld'
     /\ \A u \in Units :
          /\ (call[u].st = "calling" /\ call'[u].attempt = call[u].attempt + 1)
               => /\ call'[u].st = "calling"
                  /\ UNCHANGED <<worker, queue, activeCount>>
          /\ (worker[u] = "queued" /\ worker'[u] = "running")
               => \E v \in Units : worker[v] = "running" /\ worker'[v] = "done"]_vars

\* all 5 slots in use, one of them by a chapter on a retry, while a sixth
\* chapter waits in the queue
C18_Witness ==
  /\ InFlight = concurrency
  /\ activeCount = concurrency
  /\ Len(queue) > 0
  /\ \E u \in Units : call[u] = [st |-> "calling", attempt |-> 1]

\* C19: every text a chapter call returns is non-empty after the fence
\* markers were taken off, so every chapter body is non-empty, also when
\* the response is nothing but a fence opening and a fence closing.
C19_BodyNonEmpty ==
  \A u \in Units : call[u].st = "returned" => Body(u) # <<>>

\* the slots filled in the file are exactly the chapters that have finished
FilledAreDone ==
  IF tally.writes = 0 THEN \A u \in Units : worker[u] # "done"
  ELSE /\ Len(file) = N
       /\ {i \in 1..N : file[i].filled} = {u \in Units : worker[u] = "done"}

\* C20: with HTML output no finished chapter is lost: filling a chapter's
\* slot and writing the file are one step, which no other chapter's step
\* can come between, so the document changes only in a step that also
\* writes it to the file as it then is, and after every write the filled
\* slots of the file are exactly the chapters finished so far, in whatever
\* order they finish.
C20_NoneLost ==
  [][html =>
       /\ FilledAreDone'
       /\ (N > 0 /\ dom' # dom)
            => /\ file' = dom'
               /\ tally'.writes = tally.writes + 1]_vars

\* both of two chapters written to the file, the second before the first
C20_Witness ==
  /\ html
  /\ overtook
  /\ N = 2
  /\ tally.writes = 2
  /\ file[1].filled /\ file[2].filled
====
